---------------------------- MODULE Spec2Model ----------------------------
(***************************************************************************)
(* A model of AuditReadinessAI (src/api): the readiness scorer             *)
(* (compute_scores), the link / compute-score request handlers with the    *)
(* gap lifecycle they drive, and the report orchestrator.                  *)
(*                                                                         *)
(* Time is counted in ticks, TicksPerDay ticks to a day, so that the       *)
(* truncation of an age to whole days (timedelta.days) is not the          *)
(* identity.  Scores are Python floats in the code; here they are exact    *)
(* rationals <<numerator, denominator>> in lowest terms.  Over the inputs  *)
(* enumerated below the float results differ from the exact ones by        *)
(* rounding in the last place only (three "upload" artifacts give          *)
(* 69.99999999999999 for 70) and every threshold comparison the code makes *)
(* (< 100.0, < 80.0) has the same outcome in both arithmetics.             *)
(***************************************************************************)
EXTENDS Integers, Sequences, FiniteSets, TLC

(***************************************************************************)
(* Bounds of the model.                                                    *)
(***************************************************************************)
TicksPerDay == 2
MaxLinked == 2
MaxChecklist == 4

(***************************************************************************)
(* Exact rational arithmetic for the float expressions of compute_scores.  *)
(***************************************************************************)
RECURSIVE GCD(_, _)
GCD(a, b) == IF b = 0 THEN a ELSE GCD(b, a % b)

Abs(x) == IF x < 0 THEN -x ELSE x

\* n/d in lowest terms, d > 0
Rat(n, d) ==
  LET s == IF d < 0 THEN -1 ELSE 1
      g == GCD(Abs(n), Abs(d))
  IN  <<(s * n) \div g, (s * d) \div g>>

RatInt(n) == <<n, 1>>
RatLess(x, y) == x[1] * y[2] < y[1] * x[2]
RatLeq(x, y) == x[1] * y[2] <= y[1] * x[2]
RatMin(x, y) == IF RatLess(y, x) THEN y ELSE x
RatAdd(x, y) == Rat(x[1] * y[2] + y[1] * x[2], x[2] * y[2])
RatMul(x, y) == Rat(x[1] * y[1], x[2] * y[2])

(***************************************************************************)
(* Nullable columns: NULL is the empty tuple, a value v is <<v>>.          *)
(***************************************************************************)
NULL == <<>>
Some(v) == <<v>>

RECURSIVE SeqSum(_)
SeqSum(s) == IF s = <<>> THEN 0 ELSE Head(s) + SeqSum(Tail(s))

SetMax(S) == CHOOSE m \in S : \A x \in S : x <= m

(***************************************************************************)
(* compute_scores (main.py 76-112).  linked_artifacts is a sequence of     *)
(* records [source, collected_at]; now is the value datetime.utcnow()      *)
(* returns during the call.                                                *)
(***************************************************************************)

\* main.py 95, 97: the freshness bands, in days
FreshDays == 90
StaleDays == 180

coverage_uncapped(linked_artifacts, checklist_count) ==
  IF checklist_count <= 0
    THEN RatInt(0)
    ELSE RatMul(Rat(Len(linked_artifacts), checklist_count), RatInt(100))

coverage_floordiv(linked_artifacts, checklist_count) ==
  IF checklist_count <= 0
    THEN RatInt(0)
    ELSE RatMin(RatInt(100),
                RatInt((Len(linked_artifacts) \div checklist_count) * 100))

coverage_pct(linked_artifacts, checklist_count) ==
  IF checklist_count <= 0
    THEN RatInt(0)
    ELSE RatMin(RatInt(100),
                RatMul(Rat(Len(linked_artifacts), checklist_count), RatInt(100)))

\* the whole days of the timedelta now - newest: timedelta.days rounds down
age_days(now, newest) == (now - newest) \div TicksPerDay

freshness_band(age) ==
  IF age <= FreshDays THEN RatInt(100)
  ELSE IF age <= StaleDays THEN RatInt(50)
  ELSE RatInt(0)

collected_times(linked_artifacts) ==
  { linked_artifacts[i].collected_at[1] :
      i \in { j \in 1..Len(linked_artifacts) :
                linked_artifacts[j].collected_at # NULL } }

freshness_oldest(linked_artifacts, now) ==
  LET times == collected_times(linked_artifacts)
  IN  IF times = {} THEN RatInt(0)
      ELSE freshness_band(age_days(now, -SetMax({ -t : t \in times })))

freshness_score(linked_artifacts, now) ==
  LET times == collected_times(linked_artifacts)
  IN  IF times = {} THEN RatInt(0)
      ELSE freshness_band(age_days(now, SetMax(times)))

\* the weight of one artifact, in tenths: 1.0 for "github", else 0.7
weight_system(a) == IF a.source = "system" THEN 10 ELSE 7

weight_tenths(a) == IF a.source = "github" THEN 10 ELSE 7

source_credibility(linked_artifacts) ==
  IF linked_artifacts = <<>>
    THEN RatInt(0)
    ELSE LET weights == [i \in 1..Len(linked_artifacts) |->
                           weight_tenths(linked_artifacts[i])]
         IN  RatMul(Rat(SeqSum(weights), 10 * Len(weights)), RatInt(100))

readiness_score(coverage, freshness, credibility) ==
  RatAdd(RatAdd(RatMul(Rat(5, 10), coverage), RatMul(Rat(3, 10), freshness)),
         RatMul(Rat(2, 10), credibility))

compute_scores(linked_artifacts, checklist_count, now) ==
  LET c == coverage_pct(linked_artifacts, checklist_count)
      f == freshness_score(linked_artifacts, now)
      s == source_credibility(linked_artifacts)
  IN  [coverage_pct |-> c, freshness_score |-> f, source_credibility |-> s,
       readiness_score |-> readiness_score(c, f, s)]

(***************************************************************************)
(* The request handlers of main.py over the database.                      *)
(*                                                                         *)
(* Tables hold the committed rows.  artifacts, scores and gaps are         *)
(* sequences in insertion order, a row's id being its position;            *)
(* links counts the ControlArtifactLink rows of each (control_id,          *)
(* artifact_id) pair (their ids and linked_at, which no handler reads, are *)
(* left out).  Handlers run in the server's thread pool, one per worker;   *)
(* pc is a worker's position in its handler and req its locals.  A         *)
(* session's writes reach the tables at its commit; db.close() of the      *)
(* handler's finally discards them when an exception ends it earlier.      *)
(***************************************************************************)
VARIABLES now, artifacts, links, scores, gaps, pc, req, last_read

\* the arguments and the result of a compute_scores call made on its own
VARIABLES sc_linked, sc_count, sc_now, sc_out

\* the ArtifactChunk table, and a generate_control_report call: its
\* position, its locals and its outcome
VARIABLES chunks, rp_pc, rp, rp_out

\* the arguments and the result of one call of the fusion loop of
\* hybrid_retrieve, of keyword_retrieve (the similarities of the stored
\* chunks and the order argsort gives them) and of
\* _pick_best_artifacts_for_item, each made on its own
VARIABLES fu_kw, fu_em, fu_k, fu_out
VARIABLES kr_chunks, kr_ranked, kr_k, kr_out
VARIABLES pk_item, pk_arts, pk_top_n, pk_out

\* a chunk_text call: its arguments, its position and its locals
VARIABLES ch_raw, ch_size, ch_overlap, ch_pc, ch_text, ch_start, ch_chunks

\* the module globals of retrieval.py, the model objects built so far, the
\* corpus, and the threads that call hybrid_retrieve: position and locals
VARIABLES _model, _model_load_failed, built, rt_chunks, th_pc, th

sc_vars == <<sc_linked, sc_count, sc_now, sc_out>>

rp_vars == <<chunks, rp_pc, rp, rp_out>>

fu_vars == <<fu_kw, fu_em, fu_k, fu_out>>

kr_vars == <<kr_chunks, kr_ranked, kr_k, kr_out>>

pk_vars == <<pk_item, pk_arts, pk_top_n, pk_out>>

rt_vars == <<_model, _model_load_failed, built, rt_chunks, th_pc, th>>

\* the calls made on their own
ch_vars == <<ch_raw, ch_size, ch_overlap, ch_pc, ch_text, ch_start, ch_chunks>>

fn_vars == <<fu_vars, kr_vars, pk_vars, ch_vars>>

main_vars == <<now, artifacts, links, scores, gaps, pc, req, last_read>>

\* what the request handlers leave alone
aux_vars == <<sc_vars, rp_vars, fn_vars, rt_vars>>

\* what a generate_control_report call leaves alone
rp_frame == <<main_vars, sc_vars, fn_vars, rt_vars>>

vars == <<main_vars, sc_vars, rp_vars, fn_vars, rt_vars>>

db_vars == <<artifacts, links, scores, gaps>>

\* seed.py 6-37, 39-65: five controls, three checklist items each
NumControls == 5
ChecklistPerControl == 3

\* more bounds of the model
\* as many artifacts as cover a seeded control's checklist in full
MaxArtifacts == ChecklistPerControl
MaxScores == 2
MaxJumps == 1

Workers == {1, 2}
ControlIds == 1..NumControls
\* the control ids requests carry: a seeded one and one of no control
ReqControls == {1, NumControls + 1}
ReqArtifacts == 1..MaxArtifacts
\* the (control_id, artifact_id) pairs link requests carry
LinkInputs == {1} \X ReqArtifacts
UploadSources == {"github", "upload"}
\* the clock moves in jumps of 91 days
ClockJump == (FreshDays + 1) * TicksPerDay

Idle == [op |-> "none"]

(***************************************************************************)
(* Queries.                                                                *)
(***************************************************************************)
\* db.query(ChecklistItem).filter(control_id == ...).count()
checklist_count(control_id) ==
  IF control_id \in ControlIds THEN ChecklistPerControl ELSE 0

RECURSIVE Repeat(_, _)
Repeat(x, n) == IF n = 0 THEN <<>> ELSE <<x>> \o Repeat(x, n - 1)

RECURSIVE LinkedFrom(_, _)
\* one artifact per link row of the control, rows of no artifact dropped
LinkedFrom(control_id, a) ==
  IF a > MaxArtifacts THEN <<>>
  ELSE (IF a <= Len(artifacts)
          THEN Repeat(artifacts[a], links[<<control_id, a>>])
          ELSE <<>>) \o LinkedFrom(control_id, a + 1)

linked_artifacts(control_id) == LinkedFrom(control_id, 1)

OpenGaps(control_id) ==
  { i \in 1..Len(gaps) :
      gaps[i].control_id = control_id /\ gaps[i].resolved_at = NULL }

InFlightScores == { w \in Workers : req[w].op = "compute_score" }

(***************************************************************************)
(* The clock.                                                              *)
(***************************************************************************)
Tick ==
  /\ now < MaxJumps * ClockJump
  /\ now' = now + ClockJump
  /\ UNCHANGED <<db_vars, pc, req, last_read, aux_vars>>

(***************************************************************************)
(* upload_artifact (main.py 152-175): the Artifact row, with the source    *)
(* the form gives and collected_at set by the server default, is           *)
(* committed.  The ArtifactChunk rows the handler adds afterwards (177-183) *)
(* are read by retrieval only and are not part of this state.              *)
(***************************************************************************)
Upload(w, source) ==
  /\ pc[w] = "idle"
  /\ Len(artifacts) < MaxArtifacts
  /\ artifacts' = Append(artifacts, [source |-> source, collected_at |-> Some(now)])
  /\ UNCHANGED <<now, links, scores, gaps, pc, req, last_read, aux_vars>>

(***************************************************************************)
(* link_artifact (main.py 247-265): the existence query, then the insert   *)
(* and its commit when no row was found.                                   *)
(***************************************************************************)
link_exists_unchecked(control_id, artifact_id) == FALSE

link_exists(control_id, artifact_id) == links[<<control_id, artifact_id>>] > 0

LinkCheck(w, control_id, artifact_id) ==
  /\ pc[w] = "idle"
  /\ pc' = [pc EXCEPT ![w] = "la_checked"]
  /\ req' = [req EXCEPT ![w] = [op |-> "link_artifact",
                                control_id |-> control_id,
                                artifact_id |-> artifact_id,
                                exists |-> link_exists(control_id, artifact_id)]]
  /\ UNCHANGED <<now, db_vars, last_read, aux_vars>>

LinkCommit(w) ==
  /\ pc[w] = "la_checked"
  /\ LET pair == <<req[w].control_id, req[w].artifact_id>>
     IN  links' = IF req[w].exists THEN links
                  ELSE [links EXCEPT ![pair] = @ + 1]
  /\ pc' = [pc EXCEPT ![w] = "idle"]
  /\ req' = [req EXCEPT ![w] = Idle]
  /\ UNCHANGED <<now, artifacts, scores, gaps, last_read, aux_vars>>

(***************************************************************************)
(* compute_score (main.py 268-310): the reads and compute_scores; the      *)
(* UPDATE that resolves the control's open gaps; the commit, which         *)
(* flushes the pending ControlScore and Gap rows.                          *)
(***************************************************************************)
ScoreRead(w, control_id) ==
  /\ pc[w] = "idle"
  /\ Len(scores) + Cardinality(InFlightScores) < MaxScores
  /\ LET linked == linked_artifacts(control_id)
     IN  req' = [req EXCEPT ![w] =
                  [op |-> "compute_score",
                   control_id |-> control_id,
                   linked |-> linked,
                   read_at |-> now,
                   score |-> compute_scores(linked, checklist_count(control_id), now),
                   pending |-> {},
                   resolved_at |-> NULL]]
  /\ pc' = [pc EXCEPT ![w] = "cs_computed"]
  /\ UNCHANGED <<now, db_vars, last_read, aux_vars>>

\* the rows the UPDATE ... WHERE control_id = :id AND resolved_at IS NULL
\* matches
resolve_nothing(control_id) == {}

resolve_filter(control_id) == OpenGaps(control_id)

\* The UPDATE takes its rows' locks until the transaction ends: it waits
\* while another session holds an uncommitted update of one of them.
uncommitted_update_autocommit(rows, pending, at) ==
  [i \in 1..Len(rows) |->
     IF i \in pending THEN [rows[i] EXCEPT !.resolved_at = at] ELSE rows[i]]

\* db.py 50, autocommit=False: what the table shows of an UPDATE whose
\* transaction has not committed
uncommitted_update(rows, pending, at) == rows

ScoreResolve(w) ==
  /\ pc[w] = "cs_computed"
  /\ LET rows == resolve_filter(req[w].control_id)
     IN  /\ \A v \in Workers \ {w} :
               req[v].op = "compute_score" => req[v].pending \cap rows = {}
         /\ req' = [req EXCEPT ![w].pending = rows,
                               ![w].resolved_at = Some(now)]
         /\ gaps' = uncommitted_update(gaps, rows, Some(now))
  /\ pc' = [pc EXCEPT ![w] = "cs_updated"]
  /\ UNCHANGED <<now, artifacts, links, scores, last_read, aux_vars>>

\* main.py 300-305: the gaps the scores imply
HighGap(control_id) ==
  [control_id |-> control_id, severity |-> "High",
   reason |-> "Missing evidence: coverage below 100%", resolved_at |-> NULL]

MediumGap(control_id) ==
  [control_id |-> control_id, severity |-> "Medium",
   reason |-> "Evidence may be stale (older than 90 days)", resolved_at |-> NULL]

LowGap(control_id) ==
  [control_id |-> control_id, severity |-> "Low",
   reason |-> "Evidence relies heavily on manual uploads vs system sources",
   resolved_at |-> NULL]

new_gaps_low_unlinked(control_id, score, linked) ==
  (IF RatLess(score.coverage_pct, RatInt(100)) THEN <<HighGap(control_id)>> ELSE <<>>) \o
  (IF RatLess(score.freshness_score, RatInt(100)) THEN <<MediumGap(control_id)>> ELSE <<>>) \o
  (IF RatLess(score.source_credibility, RatInt(80)) THEN <<LowGap(control_id)>> ELSE <<>>)

new_gaps(control_id, score, linked) ==
  (IF RatLess(score.coverage_pct, RatInt(100)) THEN <<HighGap(control_id)>> ELSE <<>>) \o
  (IF RatLess(score.freshness_score, RatInt(100)) THEN <<MediumGap(control_id)>> ELSE <<>>) \o
  (IF RatLess(score.source_credibility, RatInt(80)) /\ linked # <<>>
     THEN <<LowGap(control_id)>> ELSE <<>>)

RECURSIVE DropRows(_, _, _)
DropRows(rows, pending, i) ==
  IF i > Len(rows) THEN <<>>
  ELSE (IF i \in pending THEN <<>> ELSE <<rows[i]>>) \o DropRows(rows, pending, i + 1)

resolved_rows_dropped(rows, pending, at) == DropRows(rows, pending, 1)

\* the UPDATE's effect on the gaps table: SET resolved_at on the rows matched
resolved_rows(rows, pending, at) ==
  [i \in 1..Len(rows) |->
     IF i \in pending THEN [rows[i] EXCEPT !.resolved_at = at] ELSE rows[i]]

score_row(control_id, score) ==
  [control_id |-> control_id,
   coverage_pct |-> score.coverage_pct,
   freshness_score |-> score.freshness_score,
   source_credibility |-> score.source_credibility,
   readiness_score |-> score.readiness_score]

ScoreCommit(w) ==
  /\ pc[w] = "cs_updated"
  /\ scores' = Append(scores, score_row(req[w].control_id, req[w].score))
  /\ gaps' = resolved_rows(gaps, req[w].pending, req[w].resolved_at)
             \o new_gaps(req[w].control_id, req[w].score, req[w].linked)
  /\ last_read' = [last_read EXCEPT ![req[w].control_id] =
                     Some([linked |-> req[w].linked, read_at |-> req[w].read_at])]
  /\ pc' = [pc EXCEPT ![w] = "idle"]
  /\ req' = [req EXCEPT ![w] = Idle]
  /\ UNCHANGED <<now, artifacts, links, aux_vars>>

(***************************************************************************)
(* An exception ends a handler before its commit (a failed query, an       *)
(* unreadable file): the finally clause closes the session, which rolls    *)
(* its transaction back, and the request ends in a 500.                    *)
(***************************************************************************)
Raise(w) ==
  /\ pc[w] # "idle"
  /\ pc' = [pc EXCEPT ![w] = "idle"]
  /\ req' = [req EXCEPT ![w] = Idle]
  /\ UNCHANGED <<now, db_vars, last_read, aux_vars>>

\* no chunk_text call has been made
ChQuiet ==
  /\ ch_raw = <<>> /\ ch_size = 0 /\ ch_overlap = 0 /\ ch_pc = "idle"
  /\ ch_text = <<>> /\ ch_start = 0 /\ ch_chunks = <<>>

\* no call of the functions called on their own has been made
FnQuiet ==
  /\ ChQuiet
  /\ fu_kw = <<>> /\ fu_em = <<>> /\ fu_k = 0 /\ fu_out = NULL
  /\ kr_chunks = <<>> /\ kr_ranked = <<>> /\ kr_k = 0 /\ kr_out = NULL
  /\ pk_item = <<>> /\ pk_arts = <<>> /\ pk_top_n = 0 /\ pk_out = NULL

\* retrieval.py 83-84 as the module is imported, no thread in retrieval
RtQuiet ==
  /\ _model = NULL
  /\ _model_load_failed = FALSE
  /\ built = {}
  /\ rt_chunks = <<>>
  /\ th_pc = <<>>
  /\ th = <<>>

\* the state once startup() has created and seeded a fresh database
Init ==
  /\ now = 0
  /\ artifacts = <<>>
  /\ links = [p \in ReqControls \X ReqArtifacts |-> 0]
  /\ scores = <<>>
  /\ gaps = <<>>
  /\ pc = [w \in Workers |-> "idle"]
  /\ req = [w \in Workers |-> Idle]
  /\ last_read = [c \in ReqControls |-> NULL]
  /\ sc_linked = <<>> /\ sc_count = 0 /\ sc_now = 0 /\ sc_out = NULL
  /\ chunks = <<>> /\ rp_pc = "idle" /\ rp = Idle /\ rp_out = NULL
  /\ FnQuiet /\ RtQuiet

\* requests handled one at a time, by one worker
Next ==
  \/ Tick
  \/ \E source \in UploadSources : Upload(1, source)
  \/ \E p \in LinkInputs : LinkCheck(1, p[1], p[2])
  \/ LinkCommit(1)
  \/ \E c \in ReqControls : ScoreRead(1, c)
  \/ ScoreResolve(1)
  \/ ScoreCommit(1)
  \/ Raise(1)

Spec == Init /\ [][Next]_vars

\* a burst of requests handled concurrently, the steps of their handlers
\* interleaved, in less time than moves the clock
ConcNext ==
  \/ \E w \in Workers, source \in UploadSources : Upload(w, source)
  \/ \E w \in Workers, p \in LinkInputs : LinkCheck(w, p[1], p[2])
  \/ \E w \in Workers : LinkCommit(w)
  \/ \E w \in Workers, c \in ReqControls : ScoreRead(w, c)
  \/ \E w \in Workers : ScoreResolve(w)
  \/ \E w \in Workers : ScoreCommit(w)
  \/ \E w \in Workers : Raise(w)

SpecConc == Init /\ [][ConcNext]_vars

(***************************************************************************)
(* Properties of the handlers.                                             *)
(***************************************************************************)
GapRows(rows, control_id, severity, reason) ==
  { i \in 1..Len(rows) :
      /\ rows[i].control_id = control_id
      /\ rows[i].resolved_at = NULL
      /\ rows[i].severity = severity
      /\ rows[i].reason = reason }

OpenRows(rows, control_id) ==
  { i \in 1..Len(rows) :
      rows[i].control_id = control_id /\ rows[i].resolved_at = NULL }

Bit(b) == IF b THEN 1 ELSE 0

\* C2: after every completed compute_score of a control, whatever links
\* and compute_scores came before, the control's open gaps are exactly
\* those the scores just computed imply: the High gap (reason "Missing
\* evidence: coverage below 100%") iff coverage < 100, the Medium gap
\* ("Evidence may be stale (older than 90 days)") iff freshness < 100, the
\* Low gap ("Evidence relies heavily on manual uploads vs system sources")
\* iff credibility < 80 and an artifact is linked; each at most once and no
\* other open gap.
GapsMatchScores ==
  [][\A w \in Workers :
       ScoreCommit(w) =>
         LET c == req[w].control_id
             row == scores'[Len(scores')]
             high == row.coverage_pct[1] < 100 * row.coverage_pct[2]
             medium == row.freshness_score[1] < 100 * row.freshness_score[2]
             low == /\ row.source_credibility[1] < 80 * row.source_credibility[2]
                    /\ \E a \in 1..Len(artifacts) : links[<<c, a>>] > 0
         IN  /\ row.control_id = c
             /\ Cardinality(GapRows(gaps', c, "High",
                  "Missing evidence: coverage below 100%")) = Bit(high)
             /\ Cardinality(GapRows(gaps', c, "Medium",
                  "Evidence may be stale (older than 90 days)")) = Bit(medium)
             /\ Cardinality(GapRows(gaps', c, "Low",
                  "Evidence relies heavily on manual uploads vs system sources"))
                  = Bit(low)
             /\ Cardinality(OpenRows(gaps', c)) = Bit(high) + Bit(medium) + Bit(low)
    ]_vars

GapsMatchScoresWitness ==
  /\ pc[1] = "idle"
  /\ Len(scores) = 2
  /\ scores[1].control_id = 1
  /\ scores[2].control_id = 1
  /\ scores[2].coverage_pct = <<100, 1>>
  /\ scores[2].freshness_score = <<50, 1>>
  /\ \E i \in 1..Len(gaps) : gaps[i].control_id = 1 /\ gaps[i].resolved_at # NULL
  /\ { gaps[i].severity : i \in OpenRows(gaps, 1) } = {"Medium", "Low"}

LinkIdempotent ==
  [][\A w \in Workers :
       LinkCommit(w) =>
         LET pair == <<req[w].control_id, req[w].artifact_id>>
         IN  /\ links'[pair] = 1
             /\ links[pair] >= 1 => UNCHANGED db_vars
    ]_vars

LinkIdempotentWitness ==
  /\ pc[1] = "la_checked"
  /\ req[1].exists
  /\ links[<<req[1].control_id, req[1].artifact_id>>] = 1

\* C5: in every reachable state there is at most one ControlArtifactLink
\* per (control_id, artifact_id) pair, also when two link_artifact requests
\* for the same pair interleave their existence check and insert.
OneLinkPerPair == \A p \in DOMAIN links : links[p] <= 1

\* the latest ControlScore of a control
LastScore(rows, control_id) ==
  rows[SetMax({ i \in 1..Len(rows) : rows[i].control_id = control_id })]

OpenContent(rows, control_id) ==
  { <<rows[i].severity, rows[i].reason>> : i \in OpenRows(rows, control_id) }

\* the freshness band of a newest collection time at a clock reading
Band(linked, at) ==
  IF collected_times(linked) = {} THEN 0
  ELSE LET d == at - SetMax(collected_times(linked))
       IN  IF d < 91 * TicksPerDay THEN 1
           ELSE IF d < 181 * TicksPerDay THEN 2 ELSE 3

\* a compute_score commits having read the linked artifacts the control's
\* previous compute_score read
Recomputes(w) ==
  /\ ScoreCommit(w)
  /\ last_read[req[w].control_id] # NULL
  /\ last_read[req[w].control_id][1].linked = req[w].linked

\* C6 as stated: two consecutive compute_scores of a control with no change
\* to its links, checklist or artifacts in between append snapshots with
\* equal components, and the open gaps after the second have the content
\* they had after the first.
RecomputeSame ==
  [][\A w \in Workers :
       Recomputes(w) =>
         LET c == req[w].control_id
         IN  /\ scores'[Len(scores')] = LastScore(scores, c)
             /\ OpenContent(gaps', c) = OpenContent(gaps, c)
             /\ Cardinality(OpenRows(gaps', c)) = Cardinality(OpenRows(gaps, c))
    ]_vars

\* C6 amended: two such compute_scores append snapshots with equal coverage
\* and credibility; when, in addition, the age of the newest linked
\* artifact is in the same freshness band (up to 90 days, up to 180, more)
\* at both calls, freshness and readiness are equal as well and the open
\* gaps after the second call have the content they had after the first.
RecomputeSameBand ==
  [][\A w \in Workers :
       Recomputes(w) =>
         LET c == req[w].control_id
             new == scores'[Len(scores')]
             old == LastScore(scores, c)
         IN  /\ new.control_id = c
             /\ new.coverage_pct = old.coverage_pct
             /\ new.source_credibility = old.source_credibility
             /\ Band(req[w].linked, req[w].read_at) =
                  Band(req[w].linked, last_read[c][1].read_at) =>
                  /\ new = old
                  /\ OpenContent(gaps', c) = OpenContent(gaps, c)
                  /\ Cardinality(OpenRows(gaps', c)) =
                       Cardinality(OpenRows(gaps, c))
    ]_vars

RecomputeSameBandWitness ==
  /\ pc[1] = "idle"
  /\ Len(scores) = 2
  /\ scores[1] = scores[2]
  /\ scores[1].control_id = 1
  /\ last_read[1] # NULL
  /\ last_read[1][1].linked # <<>>
  /\ last_read[1][1].linked = linked_artifacts(1)
  /\ OpenRows(gaps, 1) # {}

\* C18: the writes of one compute_score call are one atomic unit: the
\* appended score, the resolution of the open gaps and the new gaps reach
\* the tables together, at the commit, and a call that fails before its
\* commit appends no score and resolves or inserts no gap.
ComputeAtomic ==
  [][\A w \in Workers :
       /\ (pc[w] = "cs_updated" /\ pc'[w] = "idle" /\ scores' # scores)
             => /\ scores' = Append(scores, score_row(req[w].control_id,
                                                       req[w].score))
                /\ \A i \in req[w].pending : gaps'[i].resolved_at # NULL
                /\ OpenContent(gaps', req[w].control_id)
                      = LET new == new_gaps(req[w].control_id, req[w].score,
                                            req[w].linked)
                        IN  { <<new[i].severity, new[i].reason>> :
                                i \in 1..Len(new) }
       /\ (pc[w] \in {"cs_computed", "cs_updated"} /\ pc'[w] = "idle"
              /\ scores' = scores)
             => gaps' = gaps
       /\ (pc[w] = "cs_computed" /\ pc'[w] = "cs_updated")
             => scores' = scores /\ gaps' = gaps
       /\ (pc[w] = "idle" /\ pc'[w] = "cs_computed")
             => scores' = scores /\ gaps' = gaps]_vars

\* the UPDATE of a call has run on an open gap, the call has not
\* committed, and the table still shows the gap open
ComputeAtomicWitness ==
  \E w \in Workers :
    /\ pc[w] = "cs_updated"
    /\ req[w].pending # {}
    /\ \A i \in req[w].pending : gaps[i].resolved_at = NULL

(***************************************************************************)
(* The scorer on its own: Init draws the arguments of one compute_scores   *)
(* call, ScCall applies it.                                                *)
(***************************************************************************)
\* the clock reading of the call, far enough from 0 for 200-day-old samples
ScNow == 400 * TicksPerDay

Sources == {"github", "upload", "system"}

\* collection timestamps: missing, in the future, and ages around the bands
ScTimes ==
  { NULL,
    Some(ScNow + TicksPerDay),
    Some(ScNow - 30 * TicksPerDay),
    Some(ScNow - (FreshDays + 1) * TicksPerDay + 1),
    Some(ScNow - (FreshDays + 1) * TicksPerDay),
    Some(ScNow - (StaleDays + 1) * TicksPerDay + 1),
    Some(ScNow - (StaleDays + 1) * TicksPerDay),
    Some(ScNow - 200 * TicksPerDay) }

ScArtifacts == [source : Sources, collected_at : ScTimes]

SeqsUpTo(S, n) == UNION { [1..k -> S] : k \in 0..n }

ScInit ==
  /\ sc_linked \in SeqsUpTo(ScArtifacts, MaxLinked)
  /\ sc_count \in -1..MaxChecklist
  /\ sc_now = ScNow
  /\ sc_out = NULL
  /\ now = 0
  /\ artifacts = <<>>
  /\ links = [p \in ReqControls \X ReqArtifacts |-> 0]
  /\ scores = <<>>
  /\ gaps = <<>>
  /\ pc = [w \in Workers |-> "idle"]
  /\ req = [w \in Workers |-> Idle]
  /\ last_read = [c \in ReqControls |-> NULL]
  /\ chunks = <<>> /\ rp_pc = "idle" /\ rp = Idle /\ rp_out = NULL
  /\ FnQuiet /\ RtQuiet

ScCall ==
  /\ sc_out = NULL
  /\ sc_out' = Some(compute_scores(sc_linked, sc_count, sc_now))
  /\ UNCHANGED <<sc_linked, sc_count, sc_now>>

ScNext == ScCall /\ UNCHANGED <<main_vars, rp_vars, fn_vars, rt_vars>>

SpecScores == ScInit /\ [][ScNext]_vars

(***************************************************************************)
(* Properties of the scorer, checked under SpecScores.                     *)
(***************************************************************************)
InRange(v) == RatLeq(RatInt(0), v) /\ RatLeq(v, RatInt(100))

ScStamped == { i \in 1..Len(sc_linked) : sc_linked[i].collected_at # NULL }

ScGithub == { i \in 1..Len(sc_linked) : sc_linked[i].source = "github" }

\* C7: for every set of linked artifacts (any sources, missing or future
\* timestamps) and every checklist count (0 and negative included) each of
\* the four values compute_scores returns lies in [0, 100].
ScoresInRange ==
  sc_out # NULL =>
    /\ InRange(sc_out[1].coverage_pct)
    /\ InRange(sc_out[1].freshness_score)
    /\ InRange(sc_out[1].source_credibility)
    /\ InRange(sc_out[1].readiness_score)

ScoresInRangeWitness ==
  /\ sc_out # NULL
  /\ sc_count > 0
  /\ Len(sc_linked) > sc_count
  /\ \E i \in 1..Len(sc_linked) : sc_linked[i].collected_at = NULL
  /\ \E i \in ScStamped : sc_linked[i].collected_at[1] > sc_now
  /\ sc_out[1].readiness_score # RatInt(0)

\* C8: coverage = min(100, 100 * linked_count / checklist_count) when
\* checklist_count > 0 and 0 when checklist_count <= 0 whatever is linked;
\* 4 checklist items with 2 linked artifacts give exactly 50, more links
\* than checklist items give 100.
CoverageFormula ==
  sc_out # NULL =>
    LET cov == sc_out[1].coverage_pct
        n == Len(sc_linked)
    IN  /\ sc_count <= 0 => cov = <<0, 1>>
        /\ (sc_count > 0 /\ n >= sc_count) => cov = <<100, 1>>
        /\ (sc_count > 0 /\ n < sc_count) =>
              /\ cov[1] * sc_count = 100 * n * cov[2]
              /\ GCD(cov[1], cov[2]) = 1
        /\ (sc_count = 4 /\ n = 2) => cov = <<50, 1>>

CoverageFormulaWitness ==
  /\ sc_out # NULL
  /\ sc_count = 4
  /\ Len(sc_linked) = 2
  /\ sc_out[1].coverage_pct = <<50, 1>>

\* C9: freshness is 0 when no linked artifact has a collection timestamp;
\* otherwise, with age the whole days from the newest collection timestamp
\* to the current time, it is 100 if age <= 90, 50 if 90 < age <= 180 and 0
\* if age > 180 (200 days old gives 0, 30 days old gives 100); older linked
\* artifacts do not lower the result.
FreshnessBands ==
  sc_out # NULL =>
    LET f == sc_out[1].freshness_score
    IN  /\ ScStamped = {} => f = <<0, 1>>
        /\ ScStamped # {} =>
             \E i \in ScStamped :
               /\ \A j \in ScStamped :
                    sc_linked[j].collected_at[1] <= sc_linked[i].collected_at[1]
               /\ LET d == sc_now - sc_linked[i].collected_at[1]
                  IN  \* whole days <= 90 iff d is short of 91 days
                      /\ d < 91 * TicksPerDay => f = <<100, 1>>
                      /\ (d >= 91 * TicksPerDay /\ d < 181 * TicksPerDay) =>
                           f = <<50, 1>>
                      /\ d >= 181 * TicksPerDay => f = <<0, 1>>
        /\ \A i \in ScStamped :
             /\ sc_now - sc_linked[i].collected_at[1] = 30 * TicksPerDay =>
                  f = <<100, 1>>
             /\ (Len(sc_linked) = 1 /\
                 sc_now - sc_linked[i].collected_at[1] = 200 * TicksPerDay) =>
                  f = <<0, 1>>

FreshnessBandsWitness ==
  /\ sc_out # NULL
  /\ sc_out[1].freshness_score = <<50, 1>>
  /\ \E i, j \in ScStamped :
       /\ sc_now - sc_linked[i].collected_at[1] = 200 * TicksPerDay
       /\ sc_now - sc_linked[j].collected_at[1] =
            (StaleDays + 1) * TicksPerDay - 1

\* C10 as stated: credibility 0 with nothing linked, otherwise 100 times
\* the average weight (1.0 privileged source, 0.7 any other); two linked
\* artifacts tagged "system" and "upload" give 85.
CredibilitySystemTag ==
  sc_out # NULL =>
    /\ sc_linked = <<>> => sc_out[1].source_credibility = <<0, 1>>
    /\ (Len(sc_linked) = 2 /\
        { sc_linked[i].source : i \in 1..2 } = {"system", "upload"}) =>
          sc_out[1].source_credibility = <<85, 1>>

\* C10 amended: credibility is 0 when no artifact is linked; otherwise it
\* is 100 times the average weight, the weight being 1.0 for an artifact
\* tagged "github" and 0.7 for any other tag ("system" included): "github"
\* with "upload" gives 85, "system" with "upload" gives 70.
CredibilityGithubTag ==
  sc_out # NULL =>
    LET cred == sc_out[1].source_credibility
        n == Len(sc_linked)
        g == Cardinality(ScGithub)
    IN  /\ n = 0 => cred = <<0, 1>>
        /\ n > 0 =>
             /\ cred[1] * 10 * n = 100 * (10 * g + 7 * (n - g)) * cred[2]
             /\ GCD(cred[1], cred[2]) = 1
        /\ (n = 2 /\ { sc_linked[i].source : i \in 1..n } = {"github", "upload"}) =>
             cred = <<85, 1>>
        /\ (n = 2 /\ { sc_linked[i].source : i \in 1..n } = {"system", "upload"}) =>
             cred = <<70, 1>>

CredibilityGithubTagWitness ==
  /\ sc_out # NULL
  /\ Len(sc_linked) = 2
  /\ { sc_linked[i].source : i \in 1..Len(sc_linked) } = {"github", "upload"}
  /\ sc_out[1].source_credibility = <<85, 1>>

(***************************************************************************)
(* generate_control_report (agent_report.py 165-226), one call taken step  *)
(* by step.  Every operation of the call that can throw has a step that    *)
(* succeeds and a step that throws; where the exception lands is decided   *)
(* by the try blocks of the source.  The texts of chunks, prompts and      *)
(* generated reports are not part of the state.                            *)
(***************************************************************************)
MaxReportArtifacts == 2
MaxChunks == 3

\* the defaults of the signature, agent_report.py 165
K_ARTIFACTS == 5
SNIPPETS_PER_ARTIFACT == 2

NotFoundText == "Control not found."
UnexpectedText == "Agent report failed unexpectedly. Try again after uploading evidence."

Returned(text, mode) == [kind |-> "returned", text |-> text, mode |-> mode]
\* the exception of the line leaves the call
Raised(line) == [kind |-> "raised", line |-> line]

\* the artifacts that have chunks
ChunkArtifacts == { chunks[i].artifact_id : i \in 1..Len(chunks) }

DupFree(q) == \A i, j \in 1..Len(q) : i # j => q[i] # q[j]

\* what a retrieval that returns can return: at most k artifact ids, no
\* id twice, each the id of an artifact that has chunks (retrieval.py
\* 46-75, 163-182); the order is decided by the scores of the texts
Rankings(k) ==
  LET n == IF Cardinality(ChunkArtifacts) < k
             THEN Cardinality(ChunkArtifacts) ELSE k
  IN  { q \in UNION { [1..m -> ChunkArtifacts] : m \in 0..n } : DupFree(q) }

FirstN(q, n) == IF Len(q) <= n THEN q ELSE SubSeq(q, 1, n)

\* 196-202: the chunk indexes of the artifact in ascending order, the
\* first snippets_per_artifact of them
snippets_of(aid) ==
  FirstN(SelectSeq(chunks, LAMBDA c : c.artifact_id = aid),
         SNIPPETS_PER_ARTIFACT)

\* 94-141: the deterministic report; its gaps section says whether any
\* snippet was found
_fallback_report(artifacts_with_snippets) ==
  [kind |-> "fallback_report",
   no_snippets |-> artifacts_with_snippets = <<>>,
   cited |-> { artifacts_with_snippets[i].artifact_id :
                 i \in 1..Len(artifacts_with_snippets) }]

RpLocals(control_id) ==
  [control_id |-> control_id, artifact_ids |-> <<>>, next |-> 1,
   artifacts_with_snippets |-> <<>>,
   hybrid |-> "none", hybrid_ids |-> <<>>,
   lexical |-> "none", lexical_ids |-> <<>>]

\* the call is made
RpCall(control_id) ==
  /\ rp_pc = "idle"
  /\ rp' = RpLocals(control_id)
  /\ rp_pc' = "client"
  /\ UNCHANGED <<rp_frame, chunks, rp_out>>

\* 172: client = OpenAI()
RpClient ==
  /\ rp_pc = "client"
  /\ rp_pc' = "session"
  /\ UNCHANGED <<rp_frame, chunks, rp, rp_out>>

\* 172 throws (no API key in the environment); no try encloses the line
RpClientRaises ==
  /\ rp_pc = "client"
  /\ rp_pc' = "done"
  /\ rp_out' = Raised(172)
  /\ UNCHANGED <<rp_frame, chunks, rp>>

\* 174: db = SessionLocal()
RpSession ==
  /\ rp_pc = "session"
  /\ rp_pc' = "control"
  /\ UNCHANGED <<rp_frame, chunks, rp, rp_out>>

\* 174 throws; the try starts on the next line
RpSessionRaises ==
  /\ rp_pc = "session"
  /\ rp_pc' = "done"
  /\ rp_out' = Raised(174)
  /\ UNCHANGED <<rp_frame, chunks, rp>>

\* 176-184: the control and its checklist are read; 177-178 returns when
\* there is no such control
RpControl ==
  /\ rp_pc = "control"
  /\ IF rp.control_id \in ControlIds
       THEN rp_pc' = "hybrid" /\ UNCHANGED rp_out
       ELSE rp_pc' = "done" /\ rp_out' = Returned(NotFoundText, "fallback")
  /\ UNCHANGED <<rp_frame, chunks, rp>>

\* 220-224: what the outer handler returns
RpUnexpected ==
  /\ rp_pc' = "done"
  /\ rp_out' = Returned(UnexpectedText, "fallback")
  /\ UNCHANGED <<rp_frame, chunks, rp>>

\* a query of 176-184 throws
RpControlRaises ==
  /\ rp_pc = "control"
  /\ RpUnexpected

lexical_tier_never(artifact_ids) == FALSE

\* 156: if not artifact_ids
lexical_tier_needed(artifact_ids) == artifact_ids = <<>>

\* 149-150: hybrid_retrieve returns a list
RpHybrid ==
  /\ rp_pc = "hybrid"
  /\ \E q \in Rankings(K_ARTIFACTS) :
       /\ rp' = [rp EXCEPT !.hybrid = "returned", !.hybrid_ids = q,
                           !.artifact_ids = q]
       /\ rp_pc' = IF lexical_tier_needed(q) THEN "keyword" ELSE "snippets"
  /\ UNCHANGED <<rp_frame, chunks, rp_out>>

\* 151-154: hybrid_retrieve throws and the empty list stands for its result
RpHybridRaises ==
  /\ rp_pc = "hybrid"
  /\ rp' = [rp EXCEPT !.hybrid = "raised", !.artifact_ids = <<>>]
  /\ rp_pc' = IF lexical_tier_needed(<<>>) THEN "keyword" ELSE "snippets"
  /\ UNCHANGED <<rp_frame, chunks, rp_out>>

\* 156-157: keyword_retrieve returns a list
RpKeyword ==
  /\ rp_pc = "keyword"
  /\ \E q \in Rankings(K_ARTIFACTS) :
       rp' = [rp EXCEPT !.lexical = "returned", !.lexical_ids = q,
                       !.artifact_ids = q]
  /\ rp_pc' = "snippets"
  /\ UNCHANGED <<rp_frame, chunks, rp_out>>

\* 158-160: keyword_retrieve throws
RpKeywordRaises ==
  /\ rp_pc = "keyword"
  /\ rp' = [rp EXCEPT !.lexical = "raised", !.artifact_ids = <<>>]
  /\ rp_pc' = "snippets"
  /\ UNCHANGED <<rp_frame, chunks, rp_out>>

\* 192-205: one turn of the loop over artifact_ids
RpSnippet ==
  /\ rp_pc = "snippets"
  /\ rp.next <= Len(rp.artifact_ids)
  /\ LET aid == rp.artifact_ids[rp.next]
     IN  rp' = [rp EXCEPT
                  !.next = @ + 1,
                  !.artifacts_with_snippets =
                     IF aid \in 1..Len(artifacts)
                       THEN Append(@, [artifact_id |-> aid,
                                       snippets |-> snippets_of(aid)])
                       ELSE @]
  /\ UNCHANGED <<rp_frame, chunks, rp_pc, rp_out>>

\* 206-208: a query of the loop throws; the loop ends with what it has
RpSnippetRaises ==
  /\ rp_pc = "snippets"
  /\ rp.next <= Len(rp.artifact_ids)
  /\ rp_pc' = "prompt"
  /\ UNCHANGED <<rp_frame, chunks, rp, rp_out>>

\* the loop is over
RpSnippetsDone ==
  /\ rp_pc = "snippets"
  /\ rp.next > Len(rp.artifact_ids)
  /\ rp_pc' = "prompt"
  /\ UNCHANGED <<rp_frame, chunks, rp, rp_out>>

\* 210-215: the prompt is built and the generator answers
RpGenerate ==
  /\ rp_pc = "prompt"
  /\ rp_pc' = "done"
  /\ rp_out' = Returned([kind |-> "generated"], "openai")
  /\ UNCHANGED <<rp_frame, chunks, rp>>

\* 216-218: the generator call throws
RpGenerateRaises ==
  /\ rp_pc = "prompt"
  /\ rp_pc' = "done"
  /\ rp_out' = Returned(_fallback_report(rp.artifacts_with_snippets),
                        "fallback")
  /\ UNCHANGED <<rp_frame, chunks, rp>>

\* 210 or 218 throws inside the outer try
RpPromptRaises ==
  /\ rp_pc = "prompt"
  /\ RpUnexpected

\* the stored artifact of upload_artifact (main.py 166-175)
StoredArtifact == [source |-> "upload", collected_at |-> Some(0)]

RECURSIVE ChunkRows(_, _)
\* main.py 177-183: the chunks of artifacts 1..n, counts[a] of each
ChunkRows(counts, a) ==
  IF a > Len(counts) THEN <<>>
  ELSE [i \in 1..counts[a] |-> [artifact_id |-> a, chunk_index |-> i - 1]]
         \o ChunkRows(counts, a + 1)

RpInit ==
  /\ now = 0
  /\ links = [p \in ReqControls \X ReqArtifacts |-> 0]
  /\ scores = <<>>
  /\ gaps = <<>>
  /\ pc = [w \in Workers |-> "idle"]
  /\ req = [w \in Workers |-> Idle]
  /\ last_read = [c \in ReqControls |-> NULL]
  /\ sc_linked = <<>> /\ sc_count = 0 /\ sc_now = 0 /\ sc_out = NULL
  /\ \E n \in 0..MaxReportArtifacts :
       \E counts \in [1..n -> 0..MaxChunks] :
         /\ artifacts = [a \in 1..n |-> StoredArtifact]
         /\ chunks = ChunkRows(counts, 1)
  /\ rp_pc = "idle" /\ rp = Idle /\ rp_out = NULL
  /\ FnQuiet /\ RtQuiet

RpNext ==
  \/ \E control_id \in ReqControls : RpCall(control_id)
  \/ RpClient
  \/ RpClientRaises
  \/ RpSession
  \/ RpSessionRaises
  \/ RpControl
  \/ RpControlRaises
  \/ RpHybrid
  \/ RpHybridRaises
  \/ RpKeyword
  \/ RpKeywordRaises
  \/ RpSnippet
  \/ RpSnippetRaises
  \/ RpSnippetsDone
  \/ RpGenerate
  \/ RpGenerateRaises
  \/ RpPromptRaises

SpecReport == RpInit /\ [][RpNext]_vars

(***************************************************************************)
(* Properties of generate_control_report.                                  *)
(***************************************************************************)
\* C1: generate_control_report never raises: whatever the control id and
\* whichever step fails, a finished call has returned a (text, mode) pair.
ReportNeverRaises ==
  rp_pc = "done" => rp_out.kind = "returned"

\* the retrieval of the call is over
Retrieved ==
  /\ rp_pc \in {"snippets", "prompt", "done"}
  /\ rp.hybrid # "none"

\* C15: whenever retrieval yields no evidence for an existing control,
\* generate_control_report returns the deterministic fallback report, with
\* mode "fallback" and a text that says no indexed evidence snippets were
\* found, whether or not the generator can be reached.
NoEvidenceFallback ==
  (rp_pc = "done" /\ Retrieved /\ rp.artifact_ids = <<>>)
     => rp_out = Returned(_fallback_report(<<>>), "fallback")

\* C16: _safe_get_artifact_ids never raises and goes through two tiers: the
\* lexical tier is tried exactly when the hybrid tier raised or returned
\* the empty list; a non-empty hybrid list is returned as it is; the empty
\* list is returned only when the lexical tier raised or returned nothing.
TwoTierOrder ==
  Retrieved =>
    /\ rp.lexical # "none" <=> (rp.hybrid = "raised" \/ rp.hybrid_ids = <<>>)
    /\ rp.lexical = "none" =>
          rp.artifact_ids = rp.hybrid_ids /\ rp.artifact_ids # <<>>
    /\ rp.lexical = "returned" => rp.artifact_ids = rp.lexical_ids
    /\ rp.artifact_ids = <<>> =>
          \/ rp.lexical = "raised"
          \/ rp.lexical = "returned" /\ rp.lexical_ids = <<>>
    /\ rp_out = NULL \/ rp_pc = "done"

\* hybrid raised and the lexical tier supplied the ids
TwoTierOrderWitness ==
  /\ Retrieved
  /\ rp.hybrid = "raised"
  /\ rp.lexical = "returned"
  /\ rp.artifact_ids = <<2, 1>>

(***************************************************************************)
(* hybrid_retrieve (retrieval.py 163-182): the loop that merges the        *)
(* lexical list kw and the semantic list em, called on its own with lists  *)
(* of artifact ids that hold no id twice, as keyword_retrieve and          *)
(* embedding_retrieve build them from the keys of a dict.                  *)
(***************************************************************************)
MaxFuseLen == 3
MaxFuseK == 4

FuseIds == 1..5

Range(q) == { q[i] : i \in 1..Len(q) }

RECURSIVE fuse_loop(_, _, _)
\* 175-180: one turn per element of kw + em; the test of len(out) against
\* k comes after the append
fuse_loop(rest, out, k) ==
  IF rest = <<>> THEN out
  ELSE LET aid == Head(rest)
           out2 == IF aid \in Range(out) THEN out ELSE Append(out, aid)
       IN  IF Len(out2) >= k THEN out2
           ELSE fuse_loop(Tail(rest), out2, k)

fuse_semantic_first(kw, em, k) == fuse_loop(em \o kw, <<>>, k)

\* 173-182
fuse(kw, em, k) == fuse_loop(kw \o em, <<>>, k)

\* the lists of at most n ids of S, no id twice
DupFreeSeqs(S, n) ==
  { q \in UNION { [1..m -> S] : m \in 0..n } : DupFree(q) }

FuInit ==
  /\ fu_kw \in DupFreeSeqs(FuseIds, MaxFuseLen)
  /\ fu_em \in DupFreeSeqs(FuseIds, MaxFuseLen)
  /\ fu_k \in 0..MaxFuseK
  /\ fu_out = NULL
  /\ now = 0
  /\ artifacts = <<>>
  /\ links = [p \in ReqControls \X ReqArtifacts |-> 0]
  /\ scores = <<>>
  /\ gaps = <<>>
  /\ pc = [w \in Workers |-> "idle"]
  /\ req = [w \in Workers |-> Idle]
  /\ last_read = [c \in ReqControls |-> NULL]
  /\ sc_linked = <<>> /\ sc_count = 0 /\ sc_now = 0 /\ sc_out = NULL
  /\ chunks = <<>> /\ rp_pc = "idle" /\ rp = Idle /\ rp_out = NULL
  /\ kr_chunks = <<>> /\ kr_ranked = <<>> /\ kr_k = 0 /\ kr_out = NULL
  /\ pk_item = <<>> /\ pk_arts = <<>> /\ pk_top_n = 0 /\ pk_out = NULL
  /\ RtQuiet /\ ChQuiet

FuCall ==
  /\ fu_out = NULL
  /\ fu_out' = Some(fuse(fu_kw, fu_em, fu_k))
  /\ UNCHANGED <<fu_kw, fu_em, fu_k>>

FuNext ==
  FuCall /\ UNCHANGED <<main_vars, sc_vars, rp_vars, kr_vars, pk_vars, ch_vars, rt_vars>>

SpecFuse == FuInit /\ [][FuNext]_vars

(***************************************************************************)
(* Properties of the fusion.                                               *)
(***************************************************************************)
RECURSIVE FirstOccurrences(_)
\* q with every repetition of an earlier element left out
FirstOccurrences(q) ==
  IF q = <<>> THEN <<>>
  ELSE LET front == FirstOccurrences(SubSeq(q, 1, Len(q) - 1))
       IN  IF q[Len(q)] \in Range(front) THEN front
           ELSE Append(front, q[Len(q)])

\* C11: for every k >= 1 the result of hybrid_retrieve is the first k
\* elements of the lexical list followed by the semantic list with only the
\* first occurrence of each id kept: it holds no id twice, is empty when
\* both lists are empty, and [3,1,2] with [2,5,1] and k = 3 gives [3,1,2].
FuseFirstK ==
  (fu_out # NULL /\ fu_k >= 1) =>
     /\ fu_out[1] = FirstN(FirstOccurrences(fu_kw \o fu_em), fu_k)
     /\ DupFree(fu_out[1])
     /\ (fu_kw = <<>> /\ fu_em = <<>>) => fu_out[1] = <<>>
     /\ (fu_kw = <<3, 1, 2>> /\ fu_em = <<2, 5, 1>> /\ fu_k = 3)
           => fu_out[1] = <<3, 1, 2>>

\* a semantic-only id is returned after the lexical ids
FuseFirstKWitness ==
  /\ fu_out # NULL
  /\ fu_kw = <<3, 1>>
  /\ fu_em = <<1, 5, 3>>
  /\ fu_k = 3
  /\ fu_out[1] = <<3, 1, 5>>

\* C19: for every k >= 0, k = 0 included, hybrid_retrieve returns at most k
\* artifact ids.
FuseAtMostK ==
  fu_out # NULL => Len(fu_out[1]) <= fu_k

(***************************************************************************)
(* keyword_retrieve (retrieval.py 46-77), called on its own.  A stored     *)
(* chunk is its artifact_id and the cosine similarity of its text to the   *)
(* query, a level in 0..MaxSim; only the order of the similarities         *)
(* decides the result.  np.argsort (64) leaves the order of equal          *)
(* similarities open: ranked is any order of the chunk indexes by          *)
(* descending similarity.                                                  *)
(***************************************************************************)
MaxCorpus == 3
MaxSim == 2
MaxRetrieveK == 3

\* 68: the chunks that are aggregated
TOP_CHUNKS == 200

CorpusArtifacts == 1..3
CorpusChunks == [artifact_id : CorpusArtifacts, sim : 0..MaxSim]

\* 64: the orders argsort(-sims) can give
ArgSorts(stored) ==
  { p \in [1..Len(stored) -> 1..Len(stored)] :
      /\ DupFree(p)
      /\ \A i \in 1..(Len(p) - 1) : stored[p[i]].sim >= stored[p[i + 1]].sim }

RECURSIVE artifact_scores(_, _, _)
\* 67-72: the dict, as its items in insertion order, after the chunks
\* ranked[1..n]; a key that is set again keeps its place
artifact_scores(stored, ranked, n) ==
  IF n = 0 THEN <<>>
  ELSE LET d == artifact_scores(stored, ranked, n - 1)
           c == stored[ranked[n]]
           at == { i \in 1..Len(d) : d[i].artifact_id = c.artifact_id }
       IN  IF at = {}
             THEN Append(d, [artifact_id |-> c.artifact_id,
                             score |-> IF c.sim > 0 THEN c.sim ELSE 0])
             ELSE [i \in 1..Len(d) |->
                     IF i \in at /\ c.sim > d[i].score
                       THEN [d[i] EXCEPT !.score = c.sim] ELSE d[i]]

RECURSIVE sorted_by_score(_)
\* 74: sorted(items, key=score, reverse=True): descending, items of equal
\* score in the order they had
sorted_by_score(items) ==
  IF items = <<>> THEN <<>>
  ELSE LET front == sorted_by_score(SubSeq(items, 1, Len(items) - 1))
           x == items[Len(items)]
           before == SelectSeq(front, LAMBDA y : y.score >= x.score)
           after == SelectSeq(front, LAMBDA y : y.score < x.score)
       IN  before \o <<x>> \o after

\* 49-75: control_id of no control gives the empty query
keyword_retrieve(control_id, stored, ranked, k) ==
  IF control_id \notin ControlIds THEN <<>>
  ELSE IF stored = <<>> THEN <<>>
  ELSE LET top_n == IF Len(ranked) < TOP_CHUNKS THEN Len(ranked)
                    ELSE TOP_CHUNKS
           top == FirstN(sorted_by_score(artifact_scores(stored, ranked, top_n)), k)
       IN  [i \in 1..Len(top) |-> top[i].artifact_id]

KrInit ==
  /\ kr_chunks \in UNION { [1..n -> CorpusChunks] : n \in 0..MaxCorpus }
  /\ kr_ranked \in ArgSorts(kr_chunks)
  /\ kr_k \in 0..MaxRetrieveK
  /\ kr_out = NULL
  /\ now = 0
  /\ artifacts = <<>>
  /\ links = [p \in ReqControls \X ReqArtifacts |-> 0]
  /\ scores = <<>>
  /\ gaps = <<>>
  /\ pc = [w \in Workers |-> "idle"]
  /\ req = [w \in Workers |-> Idle]
  /\ last_read = [c \in ReqControls |-> NULL]
  /\ sc_linked = <<>> /\ sc_count = 0 /\ sc_now = 0 /\ sc_out = NULL
  /\ chunks = <<>> /\ rp_pc = "idle" /\ rp = Idle /\ rp_out = NULL
  /\ fu_kw = <<>> /\ fu_em = <<>> /\ fu_k = 0 /\ fu_out = NULL
  /\ pk_item = <<>> /\ pk_arts = <<>> /\ pk_top_n = 0 /\ pk_out = NULL
  /\ RtQuiet /\ ChQuiet

KrCall ==
  /\ kr_out = NULL
  /\ kr_out' = Some(keyword_retrieve(1, kr_chunks, kr_ranked, kr_k))
  /\ UNCHANGED <<kr_chunks, kr_ranked, kr_k>>

KrNext ==
  KrCall /\ UNCHANGED <<main_vars, sc_vars, rp_vars, fu_vars, pk_vars, ch_vars, rt_vars>>

SpecKeyword == KrInit /\ [][KrNext]_vars

(***************************************************************************)
(* Properties of keyword_retrieve.                                         *)
(***************************************************************************)
\* the highest similarity among the stored chunks of the artifact
ArtifactScore(stored, aid) ==
  SetMax({ stored[i].sim : i \in { j \in 1..Len(stored) :
                                     stored[j].artifact_id = aid } })

StoredArtifacts(stored) == { stored[i].artifact_id : i \in 1..Len(stored) }

\* C12: keyword_retrieve returns at most k distinct artifact ids by
\* descending artifact score (the highest similarity among the artifact's
\* chunks), artifacts of equal score by ascending id whatever the stored
\* order of the chunks, and leaves out no artifact that scores higher than a
\* returned one.
KeywordTopK ==
  kr_out # NULL =>
    LET out == kr_out[1]
        Score(aid) == ArtifactScore(kr_chunks, aid)
    IN  /\ Len(out) <= kr_k
        /\ DupFree(out)
        /\ Range(out) \subseteq StoredArtifacts(kr_chunks)
        /\ \A i \in 1..(Len(out) - 1) :
             \/ Score(out[i]) > Score(out[i + 1])
             \/ Score(out[i]) = Score(out[i + 1]) /\ out[i] < out[i + 1]
        /\ \A a \in StoredArtifacts(kr_chunks) \ Range(out) :
             \A i \in 1..Len(out) : Score(a) <= Score(out[i])

(***************************************************************************)
(* Retrieval in the server process (retrieval.py 83-182).  agent_report is *)
(* a plain def route (main.py 316-317), so calls run in the threads of the *)
(* server's pool and share the module globals _model and                   *)
(* _model_load_failed, which no lock guards.  A thread makes               *)
(* hybrid_retrieve calls one after the other; a call is taken in the steps *)
(* between which another thread can run: the lexical list, the tests of    *)
(* _get_model (94-97), the load (99-115), the semantic list, the merge.    *)
(* The similarities the model gives are not part of the state: the         *)
(* semantic list is any order of the stored artifacts.                     *)
(***************************************************************************)
MaxCalls == 2
MaxHybridK == 2

\* 170-171: what hybrid_retrieve asks of each ranker
LEXICAL_K == 50

Threads == {1, 2}
RtCorpora ==
  { <<>>,
    <<[artifact_id |-> 1, sim |-> 1]>>,
    <<[artifact_id |-> 1, sim |-> 1], [artifact_id |-> 2, sim |-> 2]>> }

\* what a retrieval call leaves alone
rt_frame == <<main_vars, sc_vars, rp_vars, fn_vars>>

ThIdle(calls) == [calls |-> calls]

\* the orders the semantic ranker can give the stored artifacts
SemanticRankings(stored) ==
  { q \in [1..Cardinality(StoredArtifacts(stored)) -> StoredArtifacts(stored)] :
      DupFree(q) }

embedding_retrieve_unguarded(control_id, model, stored, ranking, k) ==
  FirstN(ranking, k)

\* 118-155
embedding_retrieve(control_id, model, stored, ranking, k) ==
  IF model = NULL THEN <<>>
  ELSE IF control_id \notin ControlIds THEN <<>>
  ELSE IF stored = <<>> THEN <<>>
  ELSE FirstN(ranking, k)

\* 163: the call is made
HrCall(t, control_id, k) ==
  /\ th_pc[t] = "idle"
  /\ th[t].calls < MaxCalls
  /\ th_pc' = [th_pc EXCEPT ![t] = "keyword"]
  /\ th' = [th EXCEPT ![t] =
              [calls |-> @.calls, control_id |-> control_id, k |-> k,
               began_failed |-> _model_load_failed,
               ranked |-> <<>>, kw |-> <<>>, model |-> NULL,
               tried |-> FALSE, em |-> <<>>, out |-> <<>>]]
  /\ UNCHANGED <<_model, _model_load_failed, built, rt_chunks, rt_frame>>

\* 170: kw = keyword_retrieve(control_id, k=50)
HrKeyword(t) ==
  /\ th_pc[t] = "keyword"
  /\ \E ranked \in ArgSorts(rt_chunks) :
       th' = [th EXCEPT ![t].ranked = ranked,
                        ![t].kw = keyword_retrieve(th[t].control_id, rt_chunks,
                                                   ranked, LEXICAL_K)]
  /\ th_pc' = [th_pc EXCEPT ![t] = "get_model"]
  /\ UNCHANGED <<_model, _model_load_failed, built, rt_chunks, rt_frame>>

\* 94-97: the two tests of _get_model; a write of another thread between
\* them has the effect of the same write before or after both
GetModelTest(t) ==
  /\ th_pc[t] = "get_model"
  /\ IF _model # NULL
       THEN /\ th' = [th EXCEPT ![t].model = _model]
            /\ th_pc' = [th_pc EXCEPT ![t] = "embed"]
       ELSE IF _model_load_failed
         THEN /\ th' = [th EXCEPT ![t].model = NULL]
              /\ th_pc' = [th_pc EXCEPT ![t] = "embed"]
         ELSE /\ th' = [th EXCEPT ![t].tried = TRUE]
              /\ th_pc' = [th_pc EXCEPT ![t] = "load"]
  /\ UNCHANGED <<_model, _model_load_failed, built, rt_chunks, rt_frame>>

\* 99-108: the constructor returns a new model object
GetModelLoad(t) ==
  /\ th_pc[t] = "load"
  /\ LET obj == Cardinality(built) + 1
     IN  /\ built' = built \cup {obj}
         /\ _model' = Some(obj)
         /\ th' = [th EXCEPT ![t].model = Some(obj)]
  /\ th_pc' = [th_pc EXCEPT ![t] = "embed"]
  /\ UNCHANGED <<_model_load_failed, rt_chunks, rt_frame>>

\* 109-115: the import, the cache directory or the constructor throws
GetModelLoadFails(t) ==
  /\ th_pc[t] = "load"
  /\ _model_load_failed' = TRUE
  /\ th' = [th EXCEPT ![t].model = NULL]
  /\ th_pc' = [th_pc EXCEPT ![t] = "embed"]
  /\ UNCHANGED <<_model, built, rt_chunks, rt_frame>>

\* 171, 124-155: em = embedding_retrieve(control_id, k=50)
HrEmbed(t) ==
  /\ th_pc[t] = "embed"
  /\ \E ranking \in SemanticRankings(rt_chunks) :
       th' = [th EXCEPT ![t].em =
                embedding_retrieve(th[t].control_id, th[t].model, rt_chunks,
                                   ranking, LEXICAL_K)]
  /\ th_pc' = [th_pc EXCEPT ![t] = "fuse"]
  /\ UNCHANGED <<_model, _model_load_failed, built, rt_chunks, rt_frame>>

\* 173-182
HrFuse(t) ==
  /\ th_pc[t] = "fuse"
  /\ th' = [th EXCEPT ![t].out = fuse(th[t].kw, th[t].em, th[t].k)]
  /\ th_pc' = [th_pc EXCEPT ![t] = "done"]
  /\ UNCHANGED <<_model, _model_load_failed, built, rt_chunks, rt_frame>>

\* the caller has the list; the thread is free for its next call
HrReturn(t) ==
  /\ th_pc[t] = "done"
  /\ th' = [th EXCEPT ![t] = ThIdle(@.calls + 1)]
  /\ th_pc' = [th_pc EXCEPT ![t] = "idle"]
  /\ UNCHANGED <<_model, _model_load_failed, built, rt_chunks, rt_frame>>

RtInit ==
  /\ _model = NULL
  /\ _model_load_failed = FALSE
  /\ built = {}
  /\ rt_chunks \in RtCorpora
  /\ th_pc = [t \in Threads |-> "idle"]
  /\ th = [t \in Threads |-> ThIdle(0)]
  /\ now = 0
  /\ artifacts = <<>>
  /\ links = [p \in ReqControls \X ReqArtifacts |-> 0]
  /\ scores = <<>>
  /\ gaps = <<>>
  /\ pc = [w \in Workers |-> "idle"]
  /\ req = [w \in Workers |-> Idle]
  /\ last_read = [c \in ReqControls |-> NULL]
  /\ sc_linked = <<>> /\ sc_count = 0 /\ sc_now = 0 /\ sc_out = NULL
  /\ chunks = <<>> /\ rp_pc = "idle" /\ rp = Idle /\ rp_out = NULL
  /\ FnQuiet

RtNext ==
  \/ \E t \in Threads, c \in ReqControls, k \in 1..MaxHybridK :
       HrCall(t, c, k)
  \/ \E t \in Threads : HrKeyword(t)
  \/ \E t \in Threads : GetModelTest(t)
  \/ \E t \in Threads : GetModelLoad(t)
  \/ \E t \in Threads : GetModelLoadFails(t)
  \/ \E t \in Threads : HrEmbed(t)
  \/ \E t \in Threads : HrFuse(t)
  \/ \E t \in Threads : HrReturn(t)

SpecRetrieval == RtInit /\ [][RtNext]_vars

(***************************************************************************)
(* Properties of the semantic model and of the degraded hybrid.            *)
(***************************************************************************)
\* C13: once a load of the semantic model has failed, every later
\* embedding_retrieve call of the process returns the empty list and does
\* not attempt the load again.
LoadFailureIsPermanent ==
  \A t \in Threads :
    (th_pc[t] \in {"fuse", "done"} /\ th[t].began_failed)
       => th[t].em = <<>> /\ ~th[t].tried

\* C14: the semantic model is constructed at most once per process, in
\* every interleaving of concurrent first calls, and every call that gets a
\* model gets that one object.
ModelBuiltOnce ==
  /\ Cardinality(built) <= 1
  /\ \A t \in Threads :
       (th_pc[t] \in {"embed", "fuse", "done"} /\ th[t].model # NULL)
          => th[t].model = _model

\* C20: when the semantic model is unavailable to a call (_get_model gave
\* it None because a load failed), hybrid_retrieve(control, k), k >= 1,
\* returns the first k entries of keyword_retrieve(control, 50).
HybridDegradesToLexical ==
  \A t \in Threads :
    (th_pc[t] = "done" /\ th[t].model = NULL)
       => th[t].out =
            FirstN(keyword_retrieve(th[t].control_id, rt_chunks,
                                    th[t].ranked, LEXICAL_K), th[t].k)

\* a call that began after the failed load returns the one lexical id
\* though two were asked for
HybridDegradesToLexicalWitness ==
  \E t \in Threads :
    /\ th_pc[t] = "done"
    /\ th[t].began_failed
    /\ th[t].model = NULL
    /\ th[t].k = 2
    /\ th[t].kw = <<1>>
    /\ th[t].out = <<1>>

(***************************************************************************)
(* _pick_best_artifacts_for_item (agent_report.py 63-91), called on its    *)
(* own.  A text is the sequence of its characters; an artifact is its id,  *)
(* its name (NULL when the upload had no file name) and its snippets.      *)
(***************************************************************************)
MaxPickArtifacts == 3
MaxTopN == 2

\* 72: the shortest token that counts as a keyword
MinKeywordLen == 4

UpperToLower ==
  [c \in {"A", "D", "F", "G", "I", "L", "M", "O", "S", "T", "U"} |->
     CASE c = "A" -> "a" [] c = "D" -> "d" [] c = "F" -> "f" [] c = "G" -> "g"
       [] c = "I" -> "i" [] c = "L" -> "l" [] c = "M" -> "m" [] c = "O" -> "o"
       [] c = "S" -> "s" [] c = "T" -> "t" [] c = "U" -> "u"]

\* str.lower()
Lower(s) ==
  [i \in 1..Len(s) |->
     IF s[i] \in DOMAIN UpperToLower THEN UpperToLower[s[i]] ELSE s[i]]

\* 71: .replace("/", " ").replace("(", " ").replace(")", " ")
ReplaceSeparators(s) ==
  [i \in 1..Len(s) |-> IF s[i] \in {"/", "(", ")"} THEN " " ELSE s[i]]

Whitespace == {" ", "\n"}

RECURSIVE SplitFrom(_, _, _)
\* str.split(): the maximal runs of characters that are not whitespace
SplitFrom(s, i, word) ==
  IF i > Len(s) THEN (IF word = <<>> THEN <<>> ELSE <<word>>)
  ELSE IF s[i] \in Whitespace
         THEN (IF word = <<>> THEN <<>> ELSE <<word>>) \o SplitFrom(s, i + 1, <<>>)
         ELSE SplitFrom(s, i + 1, Append(word, s[i]))

Split(s) == SplitFrom(s, 1, <<>>)

\* kw in hay
Contains(hay, kw) ==
  \E i \in 0..(Len(hay) - Len(kw)) : SubSeq(hay, i + 1, i + Len(kw)) = kw

RECURSIVE Join(_)
\* "\n".join(snippets)
Join(snippets) ==
  IF snippets = <<>> THEN <<>>
  ELSE IF Len(snippets) = 1 THEN snippets[1]
  ELSE snippets[1] \o <<"\n">> \o Join(Tail(snippets))

\* 69-73
keywords(item_text) ==
  LET words == SelectSeq(Split(ReplaceSeparators(item_text)),
                         LAMBDA w : Len(w) >= MinKeywordLen)
  IN  [i \in 1..Len(words) |-> Lower(words[i])]

RECURSIVE score_from(_, _, _)
\* 80-85: the loop over the keywords
score_from(kws, hay_name, hay_text) ==
  IF kws = <<>> THEN 0
  ELSE (IF Contains(hay_name, Head(kws)) THEN 2 ELSE 0)
       + (IF Contains(hay_text, Head(kws)) THEN 1 ELSE 0)
       + score_from(Tail(kws), hay_name, hay_text)

\* 76-87: the (score, a.id) pair of an artifact
scored_pair(kws, a) ==
  [score |-> score_from(kws,
                        Lower(IF a.name = NULL THEN <<>> ELSE a.name[1]),
                        Lower(Join(a.snippets))),
   id |-> a.id]

\* the order of Python tuples
PairLess(x, y) == x.score < y.score \/ (x.score = y.score /\ x.id < y.id)

RECURSIVE sort_reverse(_)
\* 89: scored.sort(reverse=True), equal pairs in the order they had
sort_reverse(pairs) ==
  IF pairs = <<>> THEN <<>>
  ELSE LET front == sort_reverse(SubSeq(pairs, 1, Len(pairs) - 1))
           x == pairs[Len(pairs)]
           before == SelectSeq(front, LAMBDA y : ~PairLess(y, x))
           after == SelectSeq(front, LAMBDA y : PairLess(y, x))
       IN  before \o <<x>> \o after

_pick_best_unsorted(item_text, artifacts_with_snippets, top_n) ==
  LET kws == keywords(item_text)
      scored == [i \in 1..Len(artifacts_with_snippets) |->
                   scored_pair(kws, artifacts_with_snippets[i])]
      best == SelectSeq(scored, LAMBDA p : p.score > 0)
  IN  FirstN([i \in 1..Len(best) |-> best[i].id], top_n)

\* 63-91
_pick_best_artifacts_for_item(item_text, artifacts_with_snippets, top_n) ==
  LET kws == keywords(item_text)
      scored == sort_reverse([i \in 1..Len(artifacts_with_snippets) |->
                                scored_pair(kws, artifacts_with_snippets[i])])
      best == SelectSeq(scored, LAMBDA p : p.score > 0)
  IN  FirstN([i \in 1..Len(best) |-> best[i].id], top_n)

\* checklist item texts
PickItems ==
  { <<>>,
    <<"L", "o", "g", "s", "/", "M", "F", "A">>,
    <<"l", "o", "g", "s", " ", " ", "l", "o", "g", "s">>,
    <<"(", "A", "u", "d", "i", "t", ")", "\n", "l", "o", "g">> }

\* names and snippets of artifacts
PickContents ==
  { [name |-> Some(<<"L", "O", "G", "S">>),
     snippets |-> << <<"m", "y", "L", "o", "g", "s">> >>],
    [name |-> Some(<<"a", "u", "d", "i", "t", "l", "o", "g", "s">>),
     snippets |-> <<>>],
    [name |-> NULL,
     snippets |-> << <<"A", "u">>, <<"d", "i", "t", "L", "O", "G", "S">> >>] }

PickIds == 1..MaxPickArtifacts

PickArtifact(id, content) ==
  [id |-> id, name |-> content.name, snippets |-> content.snippets]

\* the lists of artifacts, each id at most once, in every order
PickLists ==
  UNION { { [i \in 1..n |-> PickArtifact(ids[i], contents[i])] :
              ids \in { q \in DupFreeSeqs(PickIds, n) : Len(q) = n },
              contents \in [1..n -> PickContents] } :
          n \in 0..MaxPickArtifacts }

PkInit ==
  /\ pk_item \in PickItems
  /\ pk_arts \in PickLists
  /\ pk_top_n \in 0..MaxTopN
  /\ pk_out = NULL
  /\ now = 0
  /\ artifacts = <<>>
  /\ links = [p \in ReqControls \X ReqArtifacts |-> 0]
  /\ scores = <<>>
  /\ gaps = <<>>
  /\ pc = [w \in Workers |-> "idle"]
  /\ req = [w \in Workers |-> Idle]
  /\ last_read = [c \in ReqControls |-> NULL]
  /\ sc_linked = <<>> /\ sc_count = 0 /\ sc_now = 0 /\ sc_out = NULL
  /\ chunks = <<>> /\ rp_pc = "idle" /\ rp = Idle /\ rp_out = NULL
  /\ fu_kw = <<>> /\ fu_em = <<>> /\ fu_k = 0 /\ fu_out = NULL
  /\ kr_chunks = <<>> /\ kr_ranked = <<>> /\ kr_k = 0 /\ kr_out = NULL
  /\ RtQuiet /\ ChQuiet

PkCall ==
  /\ pk_out = NULL
  /\ pk_out' = Some(_pick_best_artifacts_for_item(pk_item, pk_arts, pk_top_n))
  /\ UNCHANGED <<pk_item, pk_arts, pk_top_n>>

PkNext ==
  PkCall /\ UNCHANGED <<main_vars, sc_vars, rp_vars, fu_vars, kr_vars, ch_vars, rt_vars>>

SpecPick == PkInit /\ [][PkNext]_vars

(***************************************************************************)
(* Properties of _pick_best_artifacts_for_item.                            *)
(***************************************************************************)
\* 2 for each keyword token of the item found in the name, 1 for each found
\* in the snippet text, letter case aside
ItemScore(item_text, a) ==
  LET tokens == Split(ReplaceSeparators(item_text))
      K == { i \in 1..Len(tokens) : Len(tokens[i]) >= 4 }
      name == IF a.name = NULL THEN <<>> ELSE a.name[1]
  IN  2 * Cardinality({ i \in K : Contains(Lower(name), Lower(tokens[i])) })
      + Cardinality({ i \in K :
                        Contains(Lower(Join(a.snippets)), Lower(tokens[i])) })

Reordered(q, p) == [i \in 1..Len(q) |-> q[p[i]]]

\* C17: _pick_best_artifacts_for_item returns at most top_n artifact ids,
\* only of artifacts whose score is positive, by descending score and,
\* among equal scores, by descending id, where the score is 2 per item
\* keyword (a token of at least 4 characters) found in the name plus 1 per
\* keyword found in the snippet text, letter case aside; the result is the
\* same for every order of the artifacts.
PickBest ==
  pk_out # NULL =>
    LET out == pk_out[1]
        S(id) == ItemScore(pk_item,
                           pk_arts[CHOOSE i \in 1..Len(pk_arts) : pk_arts[i].id = id])
        Positive == { pk_arts[i].id : i \in { j \in 1..Len(pk_arts) :
                                               ItemScore(pk_item, pk_arts[j]) > 0 } }
        After(x, y) == S(x) < S(y) \/ (S(x) = S(y) /\ x < y)
    IN  /\ Len(out) <= pk_top_n
        /\ DupFree(out)
        /\ Range(out) \subseteq Positive
        /\ Len(out) = pk_top_n \/ Range(out) = Positive
        /\ \A i \in 1..(Len(out) - 1) : After(out[i + 1], out[i])
        /\ \A a \in Positive \ Range(out) : \A i \in 1..Len(out) : After(a, out[i])
        /\ \A p \in { q \in [1..Len(pk_arts) -> 1..Len(pk_arts)] : DupFree(q) } :
             _pick_best_artifacts_for_item(pk_item, Reordered(pk_arts, p),
                                           pk_top_n) = out

\* "MFA" is too short to count; artifacts 1 and 3 score 2 by their names,
\* artifact 2 scores 1 by its second snippet, and the two best are wanted
PickBestWitness ==
  /\ pk_out # NULL
  /\ pk_item = <<"L", "o", "g", "s", "/", "M", "F", "A">>
  /\ pk_top_n = 2
  /\ Len(pk_arts) = 3
  /\ pk_arts[1] = [id |-> 1,
                   name |-> Some(<<"a", "u", "d", "i", "t", "l", "o", "g", "s">>),
                   snippets |-> <<>>]
  /\ pk_arts[2] = [id |-> 2, name |-> NULL,
                   snippets |-> << <<"A", "u">>,
                                   <<"d", "i", "t", "L", "O", "G", "S">> >>]
  /\ pk_arts[3] = [pk_arts[1] EXCEPT !.id = 3]
  /\ pk_out[1] = <<3, 1>>

(***************************************************************************)
(* chunk_text (indexing.py 15-30), one call taken a loop turn at a time.   *)
(* A text is the sequence of its characters.  The calls made are those     *)
(* with 0 <= overlap < chunk_size: every such pair up to MaxChunkSize and  *)
(* the defaults of the signature, which upload_artifact (main.py 178)      *)
(* uses.                                                                   *)
(***************************************************************************)
MaxTextLen == 4
MaxChunkSize == 3

\* 15: the defaults
CHUNK_SIZE == 800
OVERLAP == 150

TextChars == {"a", " ", "\n"}

RECURSIVE JoinWords(_)
\* " ".join(words)
JoinWords(words) ==
  IF words = <<>> THEN <<>>
  ELSE IF Len(words) = 1 THEN words[1]
  ELSE words[1] \o <<" ">> \o JoinWords(Tail(words))

\* 16: " ".join(text.split())
normalize_whitespace(text) == JoinWords(Split(text))

\* text[start:end], positions counted from 0
Slice(text, start, end) == SubSeq(text, start + 1, end)

next_start_off_by_one(end, overlap) ==
  IF end - overlap - 1 < 0 THEN 0 ELSE end - overlap - 1

\* 25-27
next_start(end, overlap) ==
  IF end - overlap < 0 THEN 0 ELSE end - overlap

ChArguments ==
  { p \in (1..MaxChunkSize) \X (0..MaxChunkSize) : p[2] < p[1] }
    \cup {<<CHUNK_SIZE, OVERLAP>>}

ch_frame == <<main_vars, sc_vars, rp_vars, fu_vars, kr_vars, pk_vars, rt_vars>>

\* 16-21: the text is normalized; the empty text returns the empty list
ChBegin ==
  /\ ch_pc = "call"
  /\ ch_text' = normalize_whitespace(ch_raw)
  /\ ch_chunks' = <<>>
  /\ ch_start' = 0
  /\ ch_pc' = IF normalize_whitespace(ch_raw) = <<>> THEN "done" ELSE "loop"
  /\ UNCHANGED <<ch_raw, ch_size, ch_overlap, ch_frame>>

\* 22-29: the test of the while and one turn of its body
ChTurn ==
  /\ ch_pc = "loop"
  /\ IF ch_start < Len(ch_text)
       THEN LET end == IF Len(ch_text) < ch_start + ch_size
                         THEN Len(ch_text) ELSE ch_start + ch_size
            IN  /\ ch_chunks' = Append(ch_chunks, Slice(ch_text, ch_start, end))
                /\ ch_start' = next_start(end, ch_overlap)
                /\ ch_pc' = IF end = Len(ch_text) THEN "done" ELSE "loop"
       ELSE /\ ch_pc' = "done"
            /\ UNCHANGED <<ch_chunks, ch_start>>
  /\ UNCHANGED <<ch_raw, ch_size, ch_overlap, ch_text, ch_frame>>

ChInit ==
  /\ ch_raw \in UNION { [1..n -> TextChars] : n \in 0..MaxTextLen }
  /\ \E p \in ChArguments : ch_size = p[1] /\ ch_overlap = p[2]
  /\ ch_pc = "call"
  /\ ch_text = <<>> /\ ch_start = 0 /\ ch_chunks = <<>>
  /\ now = 0
  /\ artifacts = <<>>
  /\ links = [p \in ReqControls \X ReqArtifacts |-> 0]
  /\ scores = <<>>
  /\ gaps = <<>>
  /\ pc = [w \in Workers |-> "idle"]
  /\ req = [w \in Workers |-> Idle]
  /\ last_read = [c \in ReqControls |-> NULL]
  /\ sc_linked = <<>> /\ sc_count = 0 /\ sc_now = 0 /\ sc_out = NULL
  /\ chunks = <<>> /\ rp_pc = "idle" /\ rp = Idle /\ rp_out = NULL
  /\ fu_kw = <<>> /\ fu_em = <<>> /\ fu_k = 0 /\ fu_out = NULL
  /\ kr_chunks = <<>> /\ kr_ranked = <<>> /\ kr_k = 0 /\ kr_out = NULL
  /\ pk_item = <<>> /\ pk_arts = <<>> /\ pk_top_n = 0 /\ pk_out = NULL
  /\ RtQuiet

ChNext ==
  \/ ChBegin
  \/ ChTurn

\* the thread that runs the call keeps running it
SpecChunk == ChInit /\ [][ChNext]_vars /\ WF_vars(ChNext)

(***************************************************************************)
(* Properties of chunk_text.                                               *)
(***************************************************************************)
\* C21: with 0 <= overlap < chunk_size chunk_text terminates for every
\* text: every loop turn but the last moves start forward, the last chunk
\* ends at the end of the whitespace-normalized text, no chunk is empty,
\* and an empty or whitespace-only text gives the empty list.
ChunkTextTerminates ==
  /\ <>(ch_pc = "done")
  /\ [][(ch_pc = "loop" /\ ch_pc' = "loop")
           => ch_start' > ch_start /\ ch_start' < Len(ch_text)]_vars
  /\ [](ch_pc = "done" =>
          /\ \A i \in 1..Len(ch_chunks) : ch_chunks[i] # <<>>
          /\ (\A i \in 1..Len(ch_raw) : ch_raw[i] \in {" ", "\n"})
                <=> ch_chunks = <<>>
          /\ ch_chunks # <<>> =>
               LET last == ch_chunks[Len(ch_chunks)]
               IN  /\ Len(last) <= Len(ch_text)
                   /\ last = SubSeq(ch_text, Len(ch_text) - Len(last) + 1,
                                    Len(ch_text))
                   /\ \A i \in 1..Len(ch_chunks) : Len(ch_chunks[i]) <= ch_size)

\* a text of two words in chunks of two characters that share one
ChunkTextTerminatesWitness ==
  /\ ch_pc = "done"
  /\ ch_raw = <<"a", "\n", " ", "a">>
  /\ ch_size = 2
  /\ ch_overlap = 1
  /\ ch_chunks = << <<"a", " ">>, <<" ", "a">> >>

=============================================================================
